---- MODULE Spec2Model ----
(***************************************************************************)
(* Container Security Analysis Suite: the orchestration of one analysis    *)
(* run (ContainerAnalyzer.run_analysis), its parallel scan stage            *)
(* (run_security_scans on a ThreadPoolExecutor) and report generation       *)
(* (generate_reports), as a state machine.                                  *)
(*                                                                           *)
(* The main thread executes run_analysis statement by statement; the       *)
(* worker threads of the pool execute the submitted scan_with_<scanner>     *)
(* callables.  The callables themselves (scan_with_*, pull_image,           *)
(* generate_sbom, export_results, ...) invoke external tools: each call     *)
(* either returns or raises, and a scanner's tool may also never terminate. *)
(***************************************************************************)
EXTENDS Integers, Sequences, FiniteSets, TLC

\* ------------------------------------------------------------------ bounds

\* Largest configured max_workers explored (3 scanners are submitted).
MaxWorkers == 3
\* Longest configured export_formats list explored.
MaxFormats == 2

\* The most ContainerAnalyzer constructions attempted in one process.
MaxAnalyzers == 2

\* The most calls of the Java analyzer's main on one project.
MaxCalls == 2

\* -------------------------------------------------------------- constants

\* for scanner in ['dive', 'trivy', 'grype']
Scanners == <<"dive", "trivy", "grype">>

ScannerSet == {Scanners[i] : i \in 1..Len(Scanners)}

\* choices=['json', 'html', 'pdf']
Formats == {"json", "html", "pdf"}

\* The feature flags read by run_analysis: config.get(<flag>, {}).get("enabled")
Features == {"runtime_analysis", "network_scan", "compliance", "notification"}

\* self.results_dir = "scan_results"
results_dir == "scan_results"

\* Faulty variant: every scanner is given the one file results_dir/results.json.
OutputPath_Shared(scanner) == <<results_dir, "results.json">>

\* os.path.join(self.results_dir, f'{scanner}_results.json')
OutputPath(scanner) == <<results_dir, scanner, "_results.json">>

\* States of one submitted callable (a Future and its work item).
AdapterStates == {"NotSubmitted", "Queued", "Running", "Succeeded", "Failed", "Cancelled"}

Resolved == {"Succeeded", "Failed"}

\* Sequences over S without repetition, of length at most n.
DistinctSeqs(S, n) ==
    {q \in UNION {[1..k -> S] : k \in 0..n} :
        \A i, j \in 1..Len(q) : i # j => q[i] # q[j]}

Range(q) == {q[i] : i \in 1..Len(q)}

\* ------------------------------------------------------------------ state

VARIABLES
    max_workers,      \* self.config["max_workers"]
    export_formats,   \* self.config["export_formats"], a list
    enabled,          \* self.config.get(f, {}).get("enabled") for each flag f
    runPc,            \* stage of run_analysis
    failCause,        \* which call raised the exception that ended the run
    pulled,           \* pull_image has been called
    scanPc,           \* position of the main thread inside run_security_scans
    st,               \* state of each scanner's future
    hung,             \* running scanners whose external tool never terminates
    workQueue,        \* the pool's FIFO work queue
    futures,          \* the list futures of run_security_scans
    collected,        \* the results gathered so far by [f.result() for f in futures]
    pendingExc,       \* the scanner whose exception is unwinding the with block
    security_results, \* the local security_results of run_analysis, once bound
    files,            \* the result files written under results_dir
    bound,            \* the names bound in run_analysis's locals()
    fmtIdx,           \* generate_reports's loop index into export_formats (0: not called)
    attempted,        \* formats export_results has been called for
    rendered,         \* formats export_results has returned for
    reportInput,      \* the results handed to generate_reports
    notified,         \* send_notifications has returned
    firstFailed,      \* the scanner whose call raised first in time (history)
    exitStatus,       \* the exit status of main, "none" while it runs
    registry,         \* the metric families in prometheus_client's process-wide REGISTRY
    constructed,      \* ContainerAnalyzer objects constructed in this process
    ctorFailed,       \* ContainerAnalyzer constructions that raised
    \* java-runtime-dependency-analyzer.py
    project,          \* the files and directories that exist under project_path
    taskDefs,         \* printRuntimeDependencies definitions appended to build.gradle
    tools,            \* the external tools that can be launched (are on PATH)
    is_maven,         \* analyzer.is_maven
    is_gradle,        \* analyzer.is_gradle
    jPc,              \* position inside main(project_path)
    dependencies,     \* the analysis that produced main's dependencies
    classes_dir,      \* classes_dir of analyze_runtime_dependencies
    build_tool,       \* build_tool of the Dockerfile main wrote
    calls,            \* calls of main so far
    gradleBefore      \* build.gradle on entry to analyze_gradle_dependencies (history)

configVars == <<max_workers, export_formats, enabled>>
scanVars == <<scanPc, st, hung, workQueue, futures, collected, pendingExc, files,
              firstFailed>>
reportVars == <<fmtIdx, attempted, rendered, reportInput>>
registryVars == <<registry, constructed, ctorFailed>>
\* What the statements of run_analysis and the pool's workers leave alone.
javaVars == <<project, taskDefs, tools, is_maven, is_gradle, jPc, dependencies,
              classes_dir, build_tool, calls, gradleBefore>>
extVars == <<exitStatus, registryVars, javaVars>>
\* The state of one analysis run.
runVars == <<max_workers, export_formats, enabled, runPc, failCause, pulled, scanPc,
             st, hung, workQueue, futures, collected, pendingExc, security_results,
             files, bound, fmtIdx, attempted, rendered, reportInput, notified,
             firstFailed>>
vars == <<runVars, extVars>>

\* setup_metrics: Gauge('container_vulnerabilities_total', ...),
\* Gauge('compliance_score', ...), Gauge('scan_duration_seconds', ...)
MetricFamilies == <<"container_vulnerabilities_total", "compliance_score",
                    "scan_duration_seconds">>

\* The Java analyzer is a separate script: it does not run in this process.
JavaIdle ==
    /\ project = {}
    /\ taskDefs = 0
    /\ tools = {}
    /\ is_maven = FALSE
    /\ is_gradle = FALSE
    /\ jPc = "notrun"
    /\ dependencies = "unset"
    /\ classes_dir = "unset"
    /\ build_tool = "unset"
    /\ calls = 0
    /\ gradleBefore = [called |-> FALSE, exists |-> FALSE, tasks |-> 0]

\* The state after ContainerAnalyzer(args): the configuration is loaded, nothing ran.
Init ==
    /\ JavaIdle
    /\ max_workers \in -1..MaxWorkers
    /\ export_formats \in DistinctSeqs(Formats, MaxFormats)
    /\ enabled \in [Features -> BOOLEAN]
    /\ runPc = "Idle"
    /\ failCause = "none"
    /\ pulled = FALSE
    /\ scanPc = "notcalled"
    /\ st = [s \in ScannerSet |-> "NotSubmitted"]
    /\ hung = {}
    /\ workQueue = <<>>
    /\ futures = <<>>
    /\ collected = <<>>
    /\ pendingExc = "none"
    /\ security_results = <<>>
    /\ files = {}
    /\ bound = {"self"}
    /\ fmtIdx = 0
    /\ attempted = {}
    /\ rendered = {}
    /\ reportInput = [names |-> {}, security_results |-> <<>>]
    /\ notified = FALSE
    /\ firstFailed = "none"
    /\ exitStatus = "none"
    /\ registry = Range(MetricFamilies)
    /\ constructed = 1
    /\ ctorFailed = 0

\* ------------------------------------------------------------ construction

\* A process that has imported the module and constructed no analyzer yet:
\* the default registry of prometheus_client is empty.
NoAnalyzer ==
    /\ max_workers = 0
    /\ export_formats = <<>>
    /\ enabled = [f \in Features |-> FALSE]
    /\ runPc = "Idle"
    /\ failCause = "none"
    /\ pulled = FALSE
    /\ scanPc = "notcalled"
    /\ st = [s \in ScannerSet |-> "NotSubmitted"]
    /\ hung = {}
    /\ workQueue = <<>>
    /\ futures = <<>>
    /\ collected = <<>>
    /\ pendingExc = "none"
    /\ security_results = <<>>
    /\ files = {}
    /\ bound = {"self"}
    /\ fmtIdx = 0
    /\ attempted = {}
    /\ rendered = {}
    /\ reportInput = [names |-> {}, security_results |-> <<>>]
    /\ notified = FALSE
    /\ firstFailed = "none"
    /\ exitStatus = "none"
    /\ registry = {}
    /\ constructed = 0
    /\ ctorFailed = 0

ProcessStart == NoAnalyzer /\ JavaIdle

\* ContainerAnalyzer(args): setup_base_configuration loads the configuration,
\* then setup_metrics creates the three Gauges.  Gauge(name, ...) registers the
\* family in the process-wide default registry and raises ValueError
\* (duplicated timeseries) when the name is registered already, so the first
\* Gauge of a second construction raises out of __init__.
ConstructAnalyzer ==
    /\ constructed + ctorFailed < MaxAnalyzers
    /\ \/ /\ MetricFamilies[1] \notin registry
          /\ registry' = registry \cup Range(MetricFamilies)
          /\ constructed' = constructed + 1
          /\ max_workers' \in -1..MaxWorkers
          /\ export_formats' \in DistinctSeqs(Formats, MaxFormats)
          /\ enabled' \in [Features -> BOOLEAN]
          /\ UNCHANGED ctorFailed
       \/ /\ MetricFamilies[1] \in registry
          /\ ctorFailed' = ctorFailed + 1
          /\ UNCHANGED <<registry, constructed, configVars>>
    /\ UNCHANGED <<exitStatus, javaVars, runPc, failCause, pulled, scanVars,
                   security_results, bound, reportVars, notified>>

\* One process constructing analyzers.
RegistrySpec == ProcessStart /\ [][ConstructAnalyzer]_vars

\* ------------------------------------------------------------- run_analysis

\* except Exception as e: self.logger.error(...); raise
Fail(cause) ==
    /\ runPc' = "Failed"
    /\ failCause' = cause

\* --------------------------------------------------------- run_analysis: pull

\* self.logger.info("Starting analysis ..."); self.pull_image() is entered
BeginPull ==
    /\ runPc = "Idle"
    /\ runPc' = "Pulling"
    /\ pulled' = TRUE
    /\ UNCHANGED <<extVars, configVars, failCause, scanVars, security_results, bound,
                   reportVars, notified>>

\* self.pull_image() returns, or raises into the except block
PullImage ==
    /\ runPc = "Pulling"
    /\ \/ /\ runPc' = "Scanning"
          /\ scanPc' = "enter"
          /\ UNCHANGED failCause
       \/ /\ Fail("pull")
          /\ UNCHANGED scanPc
    /\ UNCHANGED <<extVars, configVars, pulled, st, hung, firstFailed, workQueue, futures,
                   collected, pendingExc, files, security_results, bound, reportVars,
                   notified>>

\* --------------------------------------------- run_security_scans: the pool

\* Faulty variant: a pool constructor that accepts any worker count.
PoolAccepts_NoCheck(n) == TRUE

\* ThreadPoolExecutor.__init__: if max_workers <= 0: raise ValueError
PoolAccepts(n) == n > 0

RunningSet == {s \in ScannerSet : st[s] = "Running"}

\* Faulty variant: a thread per submitted call, whatever max_workers is.
WorkerSlotFree_Unbounded == TRUE

\* A pool of max_workers threads: a work item is taken off the queue only by a
\* thread that is not running another one.
WorkerSlotFree == Cardinality(RunningSet) < max_workers

\* Faulty variant: shutdown(wait=False), the with block is left at once.
JoinComplete_NoWait == TRUE

\* The with block's exit, executor.shutdown(wait=True), joins every worker
\* thread: a worker ends only when the queue is drained and its item is done.
JoinComplete == \A s \in ScannerSet : st[s] \notin {"Queued", "Running"}

\* with ThreadPoolExecutor(max_workers=self.config["max_workers"]) as executor:
\*     futures = []
CreatePool ==
    /\ runPc = "Scanning"
    /\ scanPc = "enter"
    /\ \/ /\ PoolAccepts(max_workers)
          /\ scanPc' = "submit"
          /\ UNCHANGED <<runPc, failCause>>
       \/ /\ ~PoolAccepts(max_workers)
          /\ scanPc' = "raised"
          /\ Fail("config")
    /\ UNCHANGED <<extVars, configVars, pulled, st, hung, firstFailed, workQueue, futures,
                   collected, pendingExc, files, security_results, bound, reportVars,
                   notified>>

\* futures.append(executor.submit(getattr(self, f'scan_with_{scanner}'),
\*     self.image, os.path.join(self.results_dir, f'{scanner}_results.json')))
Submit ==
    /\ runPc = "Scanning"
    /\ scanPc = "submit"
    /\ Len(futures) < Len(Scanners)
    /\ LET scanner == Scanners[Len(futures) + 1]
       IN  /\ futures' = Append(futures, scanner)
           /\ workQueue' = Append(workQueue, scanner)
           /\ st' = [st EXCEPT ![scanner] = "Queued"]
           /\ scanPc' = IF Len(futures) + 1 = Len(Scanners) THEN "collect" ELSE "submit"
    /\ UNCHANGED <<extVars, configVars, runPc, failCause, pulled, hung, firstFailed,
                   collected, pendingExc, files, security_results, bound, reportVars,
                   notified>>

\* getattr(self, f'scan_with_{scanner}') or executor.submit(...) raises (no
\* such method, no thread can be started): the exception leaves the loop and
\* unwinds to the with block's exit; what was submitted before stays queued.
SubmitRaises ==
    /\ runPc = "Scanning"
    /\ scanPc = "submit"
    /\ Len(futures) < Len(Scanners)
    /\ pendingExc' = "submit"
    /\ scanPc' = "exit"
    /\ UNCHANGED <<extVars, configVars, runPc, failCause, pulled, st, hung, firstFailed,
                   workQueue, futures, collected, files, security_results, bound,
                   reportVars, notified>>

\* A worker thread takes the next work item off the queue and calls it.
StartAdapter ==
    /\ workQueue # <<>>
    /\ WorkerSlotFree
    /\ st' = [st EXCEPT ![Head(workQueue)] = "Running"]
    /\ workQueue' = Tail(workQueue)
    /\ UNCHANGED <<extVars, configVars, runPc, failCause, pulled, scanPc, hung,
                   firstFailed, futures, collected, pendingExc, files, security_results,
                   bound, reportVars, notified>>

\* scan_with_<scanner>(image, path) returns a ScanResult, having written its
\* result file, or raises (the file written or not); the worker stores the
\* result or the exception in the future and frees its slot.
FinishAdapter(s) ==
    /\ st[s] = "Running"
    /\ s \notin hung
    /\ \/ /\ st' = [st EXCEPT ![s] = "Succeeded"]
          /\ files' = files \cup {OutputPath(s)}
          /\ UNCHANGED firstFailed
       \/ /\ st' = [st EXCEPT ![s] = "Failed"]
          /\ files' \in {files, files \cup {OutputPath(s)}}
          /\ firstFailed' = IF firstFailed = "none" THEN s ELSE firstFailed
    /\ UNCHANGED <<extVars, configVars, runPc, failCause, pulled, scanPc, hung, workQueue,
                   futures, collected, pendingExc, security_results, bound, reportVars,
                   notified>>

\* The external tool of a running scanner blocks for ever: the call is made
\* without a timeout, so this callable never returns or raises.
HangAdapter(s) ==
    /\ st[s] = "Running"
    /\ s \notin hung
    /\ hung' = hung \cup {s}
    /\ UNCHANGED <<extVars, configVars, runPc, failCause, pulled, scanPc, st, firstFailed,
                   workQueue, futures, collected, pendingExc, files, security_results,
                   bound, reportVars, notified>>

\* Faulty variant: on the first failure the futures still queued are
\* cancelled (as shutdown(cancel_futures=True) would).
AwaitResult_CancelSiblings ==
    /\ runPc = "Scanning"
    /\ scanPc = "collect"
    /\ LET f == futures[Len(collected) + 1]
       IN  \/ /\ st[f] = "Succeeded"
              /\ collected' = Append(collected, f)
              /\ scanPc' = IF Len(collected) + 1 = Len(futures) THEN "exit" ELSE "collect"
              /\ UNCHANGED <<pendingExc, st, workQueue>>
           \/ /\ st[f] = "Failed"
              /\ pendingExc' = f
              /\ scanPc' = "exit"
              /\ st' = [t \in ScannerSet |-> IF st[t] = "Queued" THEN "Cancelled" ELSE st[t]]
              /\ workQueue' = <<>>
              /\ UNCHANGED collected
    /\ UNCHANGED <<extVars, configVars, runPc, failCause, pulled, hung, firstFailed,
                   futures, files, security_results, bound, reportVars, notified>>

\* Faulty variant: the results are gathered in completion order, as
\* [f.result() for f in as_completed(futures)] would.
AwaitResult_AsCompleted ==
    /\ runPc = "Scanning"
    /\ scanPc = "collect"
    /\ \E f \in Range(futures) \ Range(collected) :
          \/ /\ st[f] = "Succeeded"
             /\ collected' = Append(collected, f)
             /\ scanPc' = IF Len(collected) + 1 = Len(futures) THEN "exit" ELSE "collect"
             /\ UNCHANGED pendingExc
          \/ /\ st[f] = "Failed"
             /\ pendingExc' = f
             /\ scanPc' = "exit"
             /\ UNCHANGED collected
    /\ UNCHANGED <<extVars, configVars, runPc, failCause, pulled, st, hung, firstFailed,
                   workQueue, futures, files, security_results, bound, reportVars,
                   notified>>

\* One iteration of [f.result() for f in futures]: f.result() blocks until the
\* future is done, then returns its result or re-raises its exception, which
\* leaves the comprehension and unwinds to the with block's exit.  The other
\* futures are left as they are.
AwaitResult ==
    /\ runPc = "Scanning"
    /\ scanPc = "collect"
    /\ LET f == futures[Len(collected) + 1]
       IN  \/ /\ st[f] = "Succeeded"
              /\ collected' = Append(collected, f)
              /\ scanPc' = IF Len(collected) + 1 = Len(futures) THEN "exit" ELSE "collect"
              /\ UNCHANGED pendingExc
           \/ /\ st[f] = "Failed"
              /\ pendingExc' = f
              /\ scanPc' = "exit"
              /\ UNCHANGED collected
    /\ UNCHANGED <<extVars, configVars, runPc, failCause, pulled, st, hung, firstFailed,
                   workQueue, futures, files, security_results, bound, reportVars,
                   notified>>

\* Faulty variant: the pool is joined on the normal path only; an exception
\* leaves the call at once (shutdown called after the loop, no try/finally).
ExitPool_NoJoinOnError ==
    /\ runPc = "Scanning"
    /\ scanPc = "exit"
    /\ \/ /\ pendingExc = "none"
          /\ JoinComplete
          /\ scanPc' = "returned"
          /\ security_results' = collected
          /\ bound' = bound \cup {"security_results"}
          /\ runPc' = "SBOM"
          /\ UNCHANGED failCause
       \/ /\ pendingExc # "none"
          /\ scanPc' = "raised"
          /\ Fail("scan")
          /\ UNCHANGED <<security_results, bound>>
    /\ UNCHANGED <<extVars, configVars, pulled, st, hung, firstFailed, workQueue, futures,
                   collected, pendingExc, files, reportVars, notified>>

\* The with block is left: shutdown(wait=True) joins the workers, then the
\* list is returned and bound to security_results in run_analysis, or the
\* pending exception propagates into run_analysis's except block.
ExitPool ==
    /\ runPc = "Scanning"
    /\ scanPc = "exit"
    /\ JoinComplete
    /\ \/ /\ pendingExc = "none"
          /\ scanPc' = "returned"
          /\ security_results' = collected
          /\ bound' = bound \cup {"security_results"}
          /\ runPc' = "SBOM"
          /\ UNCHANGED failCause
       \/ /\ pendingExc # "none"
          /\ scanPc' = "raised"
          /\ Fail("scan")
          /\ UNCHANGED <<security_results, bound>>
    /\ UNCHANGED <<extVars, configVars, pulled, st, hung, firstFailed, workQueue, futures,
                   collected, pendingExc, files, reportVars, notified>>

\* ------------------------------------------- run_analysis: after the scans

\* sbom_data = self.generate_sbom(self.image)
GenerateSbom ==
    /\ runPc = "SBOM"
    /\ \/ /\ bound' = bound \cup {"sbom_data"}
          /\ runPc' = "Runtime"
          /\ UNCHANGED failCause
       \/ /\ Fail("sbom")
          /\ UNCHANGED bound
    /\ UNCHANGED <<extVars, configVars, pulled, scanVars, security_results, reportVars,
                   notified>>

\* if self.config.get(flag, {}).get("enabled"): name = self.<phase>(self.image)
OptionalPhase(stage, flag, name, next) ==
    /\ runPc = stage
    /\ \/ /\ enabled[flag]
          /\ bound' = bound \cup {name}
          /\ runPc' = next
          /\ UNCHANGED failCause
       \/ /\ enabled[flag]
          /\ Fail(flag)
          /\ UNCHANGED bound
       \/ /\ ~enabled[flag]
          /\ runPc' = next
          /\ UNCHANGED <<failCause, bound>>
    /\ UNCHANGED <<extVars, configVars, pulled, scanVars, security_results, reportVars,
                   notified>>

\* runtime_results = self.run_falco_analysis(self.image)
RuntimeAnalysis == OptionalPhase("Runtime", "runtime_analysis", "runtime_results", "Network")

\* network_results = self.scan_network_vulnerabilities(self.image)
NetworkScan == OptionalPhase("Network", "network_scan", "network_results", "Compliance")

\* compliance_results = self.run_compliance_checks(self.image)
ComplianceChecks == OptionalPhase("Compliance", "compliance", "compliance_results", "Reporting")

\* self.generate_reports(locals()) is entered: results is the dict of the
\* names bound so far, security_results among them.
GenerateReports ==
    /\ runPc = "Reporting"
    /\ fmtIdx = 0
    /\ reportInput' = [names |-> bound, security_results |-> security_results]
    /\ fmtIdx' = 1
    /\ UNCHANGED <<extVars, configVars, runPc, failCause, pulled, scanVars,
                   security_results, bound, attempted, rendered, notified>>

\* for format_type in self.config["export_formats"]:
\*     self.export_results(results, format_type)
\* export_results returns, or raises out of the loop and out of generate_reports.
ExportResults ==
    /\ runPc = "Reporting"
    /\ fmtIdx > 0
    /\ fmtIdx <= Len(export_formats)
    /\ attempted' = attempted \cup {export_formats[fmtIdx]}
    /\ \/ /\ rendered' = rendered \cup {export_formats[fmtIdx]}
          /\ fmtIdx' = fmtIdx + 1
          /\ UNCHANGED <<runPc, failCause>>
       \/ /\ Fail("report")
          /\ UNCHANGED <<rendered, fmtIdx>>
    /\ UNCHANGED <<extVars, configVars, pulled, scanVars, security_results, bound,
                   reportInput, notified>>

\* Faulty variant: generate_reports returns after its first iteration.
ReportsDone_Early ==
    /\ runPc = "Reporting"
    /\ fmtIdx > 1
    /\ runPc' = "Notifying"
    /\ UNCHANGED <<extVars, configVars, failCause, pulled, scanVars, security_results,
                   bound, reportVars, notified>>

\* The loop of generate_reports is exhausted: the call returns.
ReportsDone ==
    /\ runPc = "Reporting"
    /\ fmtIdx > 0
    /\ fmtIdx > Len(export_formats)
    /\ runPc' = "Notifying"
    /\ UNCHANGED <<extVars, configVars, failCause, pulled, scanVars, security_results,
                   bound, reportVars, notified>>

\* if self.config.get("notification", {}).get("enabled"):
\*     self.send_notifications(locals())
\* self.logger.info("Analysis completed successfully")
Notify ==
    /\ runPc = "Notifying"
    /\ \/ /\ enabled["notification"]
          /\ notified' = TRUE
          /\ runPc' = "Done"
          /\ UNCHANGED failCause
       \/ /\ enabled["notification"]
          /\ Fail("notification")
          /\ UNCHANGED notified
       \/ /\ ~enabled["notification"]
          /\ runPc' = "Done"
          /\ UNCHANGED <<failCause, notified>>
    /\ UNCHANGED <<extVars, configVars, pulled, scanVars, security_results, bound, reportVars>>

\* ------------------------------------------------------------------- main

\* Faulty variant: main logs the error and falls off its end (status 0).
MainExit_Swallow ==
    /\ runPc \in {"Done", "Failed"}
    /\ exitStatus = "none"
    /\ exitStatus' = "0"
    /\ UNCHANGED <<runVars, registryVars, javaVars>>

\* try: analyzer.run_analysis()
\* except Exception as e: logging.error(...); sys.exit(1)
\* run_analysis returned: main falls off its end and the process exits with
\* status 0; it raised: main exits with status 1.
MainExit ==
    /\ runPc \in {"Done", "Failed"}
    /\ exitStatus = "none"
    /\ exitStatus' = IF runPc = "Failed" THEN "1" ELSE "0"
    /\ UNCHANGED <<runVars, registryVars, javaVars>>

\* ------------------------------------------------------------ specification

\* The statements of the main thread.
MainStep ==
    \/ BeginPull
    \/ PullImage
    \/ CreatePool
    \/ Submit
    \/ AwaitResult
    \/ ExitPool
    \/ GenerateSbom
    \/ RuntimeAnalysis
    \/ NetworkScan
    \/ ComplianceChecks
    \/ GenerateReports
    \/ ExportResults
    \/ ReportsDone
    \/ Notify
    \/ MainExit

\* The worker threads of the pool and the external tools they wait for.
WorkerStep ==
    \/ StartAdapter
    \/ \E s \in ScannerSet : FinishAdapter(s)
    \/ \E s \in ScannerSet : HangAdapter(s)

Next == MainStep \/ WorkerStep

Spec == Init /\ [][Next]_vars

\* The interpreter schedules every thread that can run: the main thread takes
\* its next statement, an idle worker takes queued work, and a tool that has
\* not hung comes to an end.
Fairness ==
    /\ WF_vars(MainStep)
    /\ WF_vars(StartAdapter)
    /\ \A s \in ScannerSet : WF_vars(FinishAdapter(s))

FairSpec == Spec /\ Fairness

\* The scan stage on its own: a run under the configuration that enables no
\* optional phase and no export format, followed until control has left
\* run_security_scans.  The scans read neither kind of setting.
ScanInit ==
    /\ Init
    /\ export_formats = <<>>
    /\ enabled = [f \in Features |-> FALSE]

ScanMainStep ==
    \/ BeginPull
    \/ PullImage
    \/ CreatePool
    \/ Submit
    \/ AwaitResult
    \/ ExitPool

ScanNext == ScanMainStep \/ WorkerStep

ScanFairSpec ==
    /\ ScanInit
    /\ [][ScanNext]_vars
    /\ WF_vars(ScanMainStep)
    /\ WF_vars(StartAdapter)
    /\ \A s \in ScannerSet : WF_vars(FinishAdapter(s))

\* The scan stage with a submission that may raise.
PoolNext == ScanNext \/ SubmitRaises

PoolSpec == ScanInit /\ [][PoolNext]_vars

\* ------------------------------------- java-runtime-dependency-analyzer.py

\* What a project directory may hold before the analyzer runs.
ProjectFiles ==
    {"pom.xml", "build.gradle", "build.gradle.kts", "target/classes",
     "build/classes/java/main"}

\* The executables the analyzer launches with subprocess.run.
Tools == {"mvn", "gradle", "jdeps"}

\* return (self.project_path / "pom.xml").exists()
IsMavenProject == "pom.xml" \in project

\* return (self.project_path / "build.gradle").exists() or
\*        (self.project_path / "build.gradle.kts").exists()
IsGradleProject == "build.gradle" \in project \/ "build.gradle.kts" \in project

\* A project directory and a machine, before main(project_path) is called.
JavaInit ==
    /\ NoAnalyzer
    /\ project \in SUBSET ProjectFiles
    /\ tools \in SUBSET Tools
    /\ taskDefs = 0
    /\ is_maven = FALSE
    /\ is_gradle = FALSE
    /\ jPc = "start"
    /\ dependencies = "unset"
    /\ classes_dir = "unset"
    /\ build_tool = "unset"
    /\ calls = 0
    /\ gradleBefore = [called |-> FALSE, exists |-> FALSE, tasks |-> 0]

\* analyzer = JavaDependencyAnalyzer(project_path)
\* if not (analyzer.is_maven or analyzer.is_gradle): logger.error(...); return
EnterMain ==
    /\ jPc = "start"
    /\ calls' = calls + 1
    /\ is_maven' = IsMavenProject
    /\ is_gradle' = IsGradleProject
    /\ jPc' = IF IsMavenProject \/ IsGradleProject THEN "deps" ELSE "returned"
    /\ UNCHANGED <<project, taskDefs, tools, dependencies, classes_dir, build_tool,
                   gradleBefore>>
    /\ UNCHANGED <<runVars, exitStatus, registryVars>>

\* if analyzer.is_maven: dependencies = analyzer.analyze_maven_dependencies()
\* subprocess.run(["mvn", ...]) returns whatever mvn's exit status is (there is
\* no check=True, so CalledProcessError is never raised); when mvn cannot be
\* launched it raises FileNotFoundError, which no except clause catches.
AnalyzeMavenDependencies ==
    /\ jPc = "deps"
    /\ is_maven
    /\ \/ /\ "mvn" \in tools
          /\ dependencies' = "maven"
          /\ jPc' = "imports"
       \/ /\ "mvn" \notin tools
          /\ jPc' = "raised"
          /\ UNCHANGED dependencies
    /\ UNCHANGED <<project, taskDefs, tools, is_maven, is_gradle, classes_dir, build_tool,
                   calls, gradleBefore>>
    /\ UNCHANGED <<runVars, exitStatus, registryVars>>

\* else: dependencies = analyzer.analyze_gradle_dependencies()
\* with open(self.project_path / "build.gradle", "a") as f: f.write(task)
\* creates build.gradle when it does not exist and appends the task; then
\* subprocess.run(["gradle", ...]) returns or, when gradle cannot be launched,
\* raises FileNotFoundError.  Nothing removes what was appended.
AnalyzeGradleDependencies ==
    /\ jPc = "deps"
    /\ ~is_maven
    /\ gradleBefore' = [called |-> TRUE, exists |-> "build.gradle" \in project,
                        tasks |-> taskDefs]
    /\ project' = project \cup {"build.gradle"}
    /\ taskDefs' = taskDefs + 1
    /\ \/ /\ "gradle" \in tools
          /\ dependencies' = "gradle"
          /\ jPc' = "imports"
       \/ /\ "gradle" \notin tools
          /\ jPc' = "raised"
          /\ UNCHANGED dependencies
    /\ UNCHANGED <<tools, is_maven, is_gradle, classes_dir, build_tool, calls>>
    /\ UNCHANGED <<runVars, exitStatus, registryVars>>

\* imports = analyzer.analyze_imports(): reads the *.java files; an error on a
\* file is caught and logged.
AnalyzeImports ==
    /\ jPc = "imports"
    /\ jPc' = "runtime"
    /\ UNCHANGED <<project, taskDefs, tools, is_maven, is_gradle, dependencies,
                   classes_dir, build_tool, calls, gradleBefore>>
    /\ UNCHANGED <<runVars, exitStatus, registryVars>>

\* if self.is_maven: classes_dir = project_path / "target" / "classes"
\* elif self.is_gradle: classes_dir = project_path / "build"/"classes"/"java"/"main"
ClassesDir ==
    IF is_maven THEN "target/classes"
    ELSE IF is_gradle THEN "build/classes/java/main" ELSE "unset"

\* runtime_deps = analyzer.analyze_runtime_dependencies()
\* if not classes_dir or not classes_dir.exists(): logger.error(...); return set()
\* otherwise jdeps is run, or cannot be launched.
AnalyzeRuntimeDependencies ==
    /\ jPc = "runtime"
    /\ classes_dir' = ClassesDir
    /\ jPc' = IF ClassesDir \notin project \/ "jdeps" \in tools
              THEN "dockerfile" ELSE "raised"
    /\ UNCHANGED <<project, taskDefs, tools, is_maven, is_gradle, dependencies,
                   build_tool, calls, gradleBefore>>
    /\ UNCHANGED <<runVars, exitStatus, registryVars>>

\* generate_minimal_dockerfile: if self.is_maven: build_tool = "maven" ...
\* else: build_tool = "gradle" ...
DockerBuildTool == IF is_maven THEN "maven" ELSE "gradle"

\* dockerfile = analyzer.generate_minimal_dockerfile()
\* with open(analyzer.project_path / 'Dockerfile', 'w') as f: f.write(dockerfile)
\* then the summary is logged and main returns.
WriteDockerfile ==
    /\ jPc = "dockerfile"
    /\ build_tool' = DockerBuildTool
    /\ project' = project \cup {"Dockerfile"}
    /\ jPc' = "returned"
    /\ UNCHANGED <<taskDefs, tools, is_maven, is_gradle, dependencies, classes_dir, calls,
                   gradleBefore>>
    /\ UNCHANGED <<runVars, exitStatus, registryVars>>

\* main(project_path) is called again on the same project: a new analyzer.
CallAgain ==
    /\ jPc \in {"returned", "raised"}
    /\ calls < MaxCalls
    /\ jPc' = "start"
    /\ is_maven' = FALSE
    /\ is_gradle' = FALSE
    /\ dependencies' = "unset"
    /\ classes_dir' = "unset"
    /\ build_tool' = "unset"
    /\ UNCHANGED <<project, taskDefs, tools, calls, gradleBefore>>
    /\ UNCHANGED <<runVars, exitStatus, registryVars>>

JavaNext ==
    \/ EnterMain
    \/ AnalyzeMavenDependencies
    \/ AnalyzeGradleDependencies
    \/ AnalyzeImports
    \/ AnalyzeRuntimeDependencies
    \/ WriteDockerfile
    \/ CallAgain

JavaSpec == JavaInit /\ [][JavaNext]_vars

TypeOK ==
    /\ max_workers \in -1..MaxWorkers
    /\ export_formats \in DistinctSeqs(Formats, MaxFormats)
    /\ enabled \in [Features -> BOOLEAN]
    /\ runPc \in {"Idle", "Pulling", "Scanning", "SBOM", "Runtime", "Network",
                  "Compliance", "Reporting", "Notifying", "Done", "Failed"}
    /\ scanPc \in {"notcalled", "enter", "submit", "collect", "exit", "returned", "raised"}
    /\ st \in [ScannerSet -> AdapterStates]
    /\ hung \subseteq ScannerSet
    /\ pendingExc \in ScannerSet \cup {"none", "submit"}
    /\ fmtIdx \in 0..(MaxFormats + 1)
    /\ attempted \subseteq Formats
    /\ rendered \subseteq attempted

\* ------------------------------------------------------------------ claims

FailedSet == {s \in ScannerSet : st[s] = "Failed"}

SucceededSet == {s \in ScannerSet : st[s] = "Succeeded"}

\* Control has left run_security_scans, by return or by exception.
ScanCallLeft == scanPc \in {"returned", "raised"}

\* The steps a future may take: its own life cycle, nothing else.
LifeCycle ==
    {<<"NotSubmitted", "Queued">>, <<"Queued", "Running">>,
     <<"Running", "Succeeded">>, <<"Running", "Failed">>}

\* C1 (partial-failure isolation): a scanner's future changes state only along
\* its own life cycle (it is never cancelled), the step in which one scanner
\* fails or its failure is re-raised changes no sibling's state, and once the
\* pool exists every scanner is submitted, started and runs to Succeeded or
\* Failed, unless its own tool hangs or hung tools occupy every worker.
C1_PartialFailureIsolation ==
    /\ [][/\ \A s \in ScannerSet :
               st'[s] # st[s] => <<st[s], st'[s]>> \in LifeCycle
          /\ \A f \in ScannerSet :
               (st'[f] = "Failed" /\ st[f] # "Failed") =>
                   \A s \in ScannerSet \ {f} : st'[s] = st[s]
          /\ (pendingExc' # pendingExc) => st' = st /\ workQueue' = workQueue]_vars
    /\ \A s \in ScannerSet :
          [](scanPc = "submit" =>
                <>(st[s] \in Resolved \/ s \in hung \/ Cardinality(hung) >= max_workers))

\* C1 witness: with one worker dive ran first and failed; trivy and grype were
\* started after that and still ran to success, and only then the error left.
C1_Witness ==
    /\ max_workers = 1
    /\ st["dive"] = "Failed"
    /\ st["trivy"] = "Succeeded"
    /\ st["grype"] = "Succeeded"
    /\ pendingExc = "dive"
    /\ scanPc = "raised"

\* C2 (as claimed): whenever control has left run_security_scans of a valid
\* pool, it has returned, and the returned list has one entry per submitted
\* scanner: the N-k results of the succeeded ones and k error entries.
C2_ReturnsEveryEntry ==
    (ScanCallLeft /\ PoolAccepts(max_workers)) =>
        /\ scanPc = "returned"
        /\ Len(security_results) = Len(Scanners)
        /\ Cardinality(Range(security_results) \cap SucceededSet)
               = Len(Scanners) - Cardinality(FailedSet)

\* C3 (join barrier): once control has left run_security_scans, or the run is
\* at any later stage, no submitted scanner is Queued or Running: each is
\* Succeeded or Failed.
C3_JoinBarrier ==
    (ScanCallLeft \/ runPc \notin {"Idle", "Pulling", "Scanning"}) =>
        \A s \in Range(futures) : st[s] \in Resolved

\* C3 witness: the call was left by dive's exception with all three resolved.
C3_Witness ==
    /\ scanPc = "raised"
    /\ pendingExc = "dive"
    /\ Range(futures) = ScannerSet
    /\ st["trivy"] = "Succeeded"
    /\ st["grype"] = "Failed"

\* C4 (worker bound): at most max_workers scanners are Running (none when the
\* pool was refused), and a queued scanner starts only in a state where fewer
\* than max_workers are Running, so the surplus waits for a slot to be freed.
C4_WorkerBound ==
    /\ [](Cardinality(RunningSet) <= IF max_workers > 0 THEN max_workers ELSE 0)
    /\ [][\A s \in ScannerSet :
             (st[s] = "Queued" /\ st'[s] = "Running") =>
                 Cardinality(RunningSet) < max_workers]_vars

\* C4 witness: two workers are busy and the third scanner waits in the queue.
C4_Witness ==
    /\ max_workers = 2
    /\ Cardinality(RunningSet) = 2
    /\ workQueue = <<"grype">>

\* C5 (invalid worker count): with max_workers <= 0 no scanner is ever
\* submitted or started and no result file is written, and the call ends only
\* by raising the configuration error.
C5_InvalidWorkersRejected ==
    max_workers <= 0 =>
        /\ \A s \in ScannerSet : st[s] = "NotSubmitted"
        /\ futures = <<>>
        /\ workQueue = <<>>
        /\ files = {}
        /\ scanPc \in {"notcalled", "enter", "raised"}
        /\ (scanPc = "raised" => runPc = "Failed" /\ failCause = "config")

\* C5 witness: the pool was refused.
C5_Witness ==
    /\ max_workers <= 0
    /\ scanPc = "raised"
    /\ failCause = "config"

\* C6 (as claimed): a run that fails with the configuration error fails while
\* still Idle: pull_image was never called.
C6_ConfigErrorBeforePull == failCause = "config" => ~pulled

\* C7 (as claimed): when some but not all scanners failed, the run does not end
\* in Failed because of them; at Done every configured format was rendered.
C7_PartialFailureStillReports ==
    (ScanCallLeft /\ FailedSet # {} /\ SucceededSet # {}) =>
        /\ ~(runPc = "Failed" /\ failCause = "scan")
        /\ (runPc = "Done" => rendered = Range(export_formats))

\* C8 (as claimed): the run ends in Failed only by the configuration error or
\* the failure of the image pull.
C8_OnlyConfigOrPullAborts == runPc = "Failed" => failCause \in {"config", "pull"}

\* generate_reports was called and control has left it.
ReportCallLeft == fmtIdx > 0 /\ runPc # "Reporting"

\* C9 (as claimed): when control has left generate_reports, export_results was
\* called for every configured format, whichever of the renderers failed.
C9_FormatsIndependent == ReportCallLeft => attempted = Range(export_formats)

\* C10 (as claimed): a scanner whose tool never completes is resolved as
\* Failed (timeout), and run_security_scans, once entered, is eventually left.
C10_TimeoutLiveness ==
    /\ \A s \in ScannerSet : [](s \in hung => <>(st[s] = "Failed"))
    /\ [](scanPc = "enter" => <>ScanCallLeft)

\* The local each optional analysis phase binds its result to.
PhaseResult ==
    [runtime_analysis |-> "runtime_results", network_scan |-> "network_results",
     compliance |-> "compliance_results"]

\* The phase of flag f was called: it returned or it raised.
Executed(f) ==
    IF f = "notification"
    THEN notified \/ failCause = f
    ELSE PhaseResult[f] \in bound \/ failCause = f

\* run_analysis is over.
RunEnded == runPc \in {"Done", "Failed"}

\* C11 (as claimed): which optional phases execute is decided by each phase's
\* own flag alone.  A phase is called only if its flag is enabled; in a run that
\* got past SBOM generation and has ended (not stopped by a report), every
\* enabled phase was called, whatever the other flags are; and the results
\* handed to generate_reports hold a phase's entry iff its flag is enabled.
C11_FlagsIndependent ==
    /\ \A f \in Features :
          /\ Executed(f) => enabled[f]
          /\ (RunEnded /\ "sbom_data" \in bound /\ failCause # "report") =>
                 (enabled[f] => Executed(f))
    /\ fmtIdx > 0 =>
          \A f \in DOMAIN PhaseResult :
              PhaseResult[f] \in reportInput.names <=> enabled[f]

\* The stages of run_analysis in program order; Failed stands outside it.
Stages ==
    <<"Idle", "Pulling", "Scanning", "SBOM", "Runtime", "Network", "Compliance",
      "Reporting", "Notifying", "Done">>

StageIdx(p) == CHOOSE i \in 1..Len(Stages) : Stages[i] = p

\* C12 (stage ordering): the stage changes only from a non-terminal stage, and
\* only to the next stage in program order or to Failed, so no stage repeats or
\* is skipped and Done and Failed are terminal; Reporting is entered only after
\* the scans, SBOM generation and every enabled analysis phase have returned;
\* Notifying only after every configured format has been rendered.
C12_StageOrder ==
    /\ [][runPc' # runPc =>
             /\ runPc \notin {"Done", "Failed"}
             /\ runPc' = "Failed" \/ StageIdx(runPc') = StageIdx(runPc) + 1]_vars
    /\ [](runPc \in {"Reporting", "Notifying", "Done"} =>
             /\ scanPc = "returned"
             /\ "sbom_data" \in bound
             /\ \A f \in DOMAIN PhaseResult : enabled[f] => PhaseResult[f] \in bound)
    /\ [](runPc \in {"Notifying", "Done"} =>
             /\ fmtIdx > Len(export_formats)
             /\ rendered = Range(export_formats))

\* C12 witness: a run with every phase enabled went through every stage up to
\* Notifying, the last non-terminal one, and failed from there.
C12_Witness ==
    /\ runPc = "Failed"
    /\ failCause = "notification"
    /\ \A f \in Features : enabled[f]
    /\ Len(export_formats) = 2
    /\ rendered = Range(export_formats)

\* C13 (scoped pool): before run_security_scans has created its pool there is
\* no pool activity (nothing submitted, queued or running); once the call has
\* returned or raised, by whichever path, no scanner is Queued or Running and
\* the work queue is empty; and after that no scanner's state changes any more.
C13_ScopedPool ==
    /\ [](scanPc \in {"notcalled", "enter"} =>
             /\ \A s \in ScannerSet : st[s] = "NotSubmitted"
             /\ workQueue = <<>>)
    /\ [](ScanCallLeft =>
             /\ \A s \in ScannerSet : st[s] \notin {"Queued", "Running"}
             /\ workQueue = <<>>)
    /\ [][ScanCallLeft => st' = st /\ workQueue' = workQueue]_vars

\* C13 witness: the second submission raised while dive was already submitted;
\* the call raised only after dive had run to its end.
C13_Witness ==
    /\ scanPc = "raised"
    /\ pendingExc = "submit"
    /\ futures = <<"dive">>
    /\ st["dive"] \in Resolved
    /\ st["trivy"] = "NotSubmitted"

\* C14 (as claimed): however many analyzers a process constructs, no
\* construction fails because a metric family is registered already, and after
\* the first construction the registry holds exactly the three families.
C14_RegisteredOnce ==
    /\ ctorFailed = 0
    /\ constructed > 0 => registry = Range(MetricFamilies)

\* The scanners writing to path p at this moment.
Writers(p) == {s \in RunningSet : OutputPath(s) = p}

\* C15 (paths partitioned per tool): the scanners submitted in one call hold
\* pairwise distinct output paths, so at any moment every path has at most
\* one running adapter writing to it.
C15_PathsPartitioned ==
    /\ \A s, t \in Range(futures) : s # t => OutputPath(s) # OutputPath(t)
    /\ \A s \in ScannerSet : Cardinality(Writers(OutputPath(s))) <= 1

\* C15 witness: all three adapters are running at the same time.
C15_Witness ==
    /\ max_workers = 3
    /\ RunningSet = ScannerSet
    /\ scanPc = "collect"

\* C16 (as claimed): once analyze_gradle_dependencies has been called,
\* build.gradle is as it was on entry to the call (it exists iff it existed
\* and holds no more task definitions), and no task definition is ever left
\* in it, however often the analyzer ran.
C16_GradleTaskTemporary ==
    /\ gradleBefore.called =>
          /\ "build.gradle" \in project <=> gradleBefore.exists
          /\ taskDefs = gradleBefore.tasks
    /\ taskDefs = 0

\* The position of scanner s in the submission order.
Pos(s) == CHOOSE i \in 1..Len(Scanners) : Scanners[i] = s

\* C17 (submission order): a returned result list is in submission order
\* (dive, trivy, grype); and when the call raised an adapter's exception, it is
\* the exception of the failed scanner earliest in submission order: every
\* scanner submitted before it succeeded.
C17_SubmissionOrder ==
    /\ scanPc = "returned" => security_results = Scanners
    /\ (scanPc = "raised" /\ pendingExc \in ScannerSet) =>
          /\ st[pendingExc] = "Failed"
          /\ \A s \in FailedSet : Pos(pendingExc) <= Pos(s)
          /\ \A s \in ScannerSet : Pos(s) < Pos(pendingExc) => st[s] = "Succeeded"

\* C17 witness: grype's call raised first in time, dive's later, trivy's
\* succeeded, and the error that left the call is dive's.
C17_Witness ==
    /\ scanPc = "raised"
    /\ firstFailed = "grype"
    /\ pendingExc = "dive"
    /\ FailedSet = {"dive", "grype"}

\* C18 (Done and Failed exclusive): the run is Failed exactly when a call
\* raised; it is Done only when the pull, all three scans, SBOM generation,
\* every enabled phase, every configured report and the enabled notification
\* have finished; once Failed, nothing of the run changes any more (no later
\* stage executes); and main's exit status is 1 for Failed and 0 for Done.
C18_DoneXorFailed ==
    /\ [](runPc = "Failed" <=> failCause # "none")
    /\ [](runPc = "Done" =>
             /\ pulled
             /\ scanPc = "returned"
             /\ SucceededSet = ScannerSet
             /\ "sbom_data" \in bound
             /\ \A f \in DOMAIN PhaseResult : enabled[f] => PhaseResult[f] \in bound
             /\ rendered = Range(export_formats)
             /\ enabled["notification"] => notified)
    /\ [][runPc = "Failed" => runVars' = runVars]_vars
    /\ [](exitStatus # "none" => (exitStatus = "1" <=> runPc = "Failed"))
    /\ [](exitStatus # "none" => (exitStatus = "0" <=> runPc = "Done"))

\* C18 witness: a report raised; the enabled notification was never sent and
\* main exited with status 1.
C18_Witness ==
    /\ exitStatus = "1"
    /\ failCause = "report"
    /\ enabled["notification"]
    /\ ~notified

\* main(project_path) is over: it returned or an exception left it.
MainLeft == jPc \in {"returned", "raised"}

\* C19 (as claimed): when main is over, it has written a Dockerfile iff the
\* project was detected as Maven or Gradle; and in a project holding both
\* pom.xml and build.gradle the dependency analysis, the classes directory and
\* the Dockerfile are Maven's, and build.gradle is never appended to.
C19_DockerfileIffDetected ==
    /\ MainLeft => (build_tool # "unset" <=> (is_maven \/ is_gradle))
    /\ build_tool # "unset" => "Dockerfile" \in project
    /\ {"pom.xml", "build.gradle"} \subseteq project =>
          /\ dependencies \in {"unset", "maven"}
          /\ classes_dir \in {"unset", "target/classes"}
          /\ build_tool \in {"unset", "maven"}
          /\ taskDefs = 0

====
